---- MODULE Spec2Model ----
(***************************************************************************)
(* VisionForge backend: the preprocessing pipeline (preprocessing.py), the *)
(* model and its activation capture (model.py), Grad-CAM (gradcam.py) and  *)
(* the process that serves /scan and /explain (main.py).                   *)
(*                                                                         *)
(* Images are records [h, w, px] with px[y][x] a pixel; the OpenCV, PIL,   *)
(* scipy and Keras calls of the source are modelled by what the library    *)
(* computes, in integer arithmetic.                                        *)
(***************************************************************************)
EXTENDS Integers, Sequences, FiniteSets, TLC

VARIABLES
    \* ---- preprocess_for_mnist (one call) ----
    image,          \* the PIL image handed to the call
    fault,          \* the pipeline step whose library call raised, or "none"
    pc,             \* position of the call
    img_array,      \* grayscale array, after polarity correction
    img_enhanced,   \* after CLAHE
    binary,         \* the mask
    digit,          \* the cropped digit region
    digit_resized,  \* the resized crop
    canvas,         \* the 28x28 canvas
    img_final,      \* the value returned, or NoTensor
    raised,         \* an exception left the call
    executed,       \* the steps that ran, in order
    \* ---- the serving process (main.py) ----
    artifact,       \* the model file on disk
    model,          \* the global model
    feature_model,  \* the global feature_model
    phase,          \* "init", "loaded", "serving" or "failed"
    responses,      \* the responses sent so far
    explanation,    \* the outcome of the last direct generate_gradcam_explanation call
    \* ---- GradCAM.generate_heatmap (one call) ----
    conv_output,    \* the target layer's output
    grads,          \* the gradient of the class score with respect to it
    heatmap,        \* the value returned, or NoHeatmap
    \* ---- the gradient tapes of generate_heatmap (concurrent calls) ----
    hm,             \* per thread: position in generate_heatmap, call number, local tape
    tape_stack,     \* per thread: the tapes that are recording on it
    tapes,          \* every tape created so far
    outcomes        \* per call: "running", "returned" or where it raised

ppvars == <<image, fault, pc, img_array, img_enhanced, binary, digit, digit_resized,
            canvas, img_final, raised, executed>>

srvvars == <<artifact, model, feature_model, phase, responses, explanation>>

tapevars == <<hm, tape_stack, tapes, outcomes>>

camvars == <<conv_output, grads, heatmap, tapevars>>

vars == <<ppvars, srvvars, camvars>>

----------------------------------------------------------------------------
\* Arithmetic helpers

Max(a, b) == IF a >= b THEN a ELSE b
Min(a, b) == IF a <= b THEN a ELSE b
Abs(a) == IF a < 0 THEN -a ELSE a

\* C / Python int(): truncation toward zero of num/den, den > 0
TruncDiv(num, den) == IF num >= 0 THEN num \div den ELSE -((-num) \div den)

\* round to nearest of num/den, num >= 0, den > 0 (cvRound / saturate_cast)
RoundDiv(num, den) == (2 * num + den) \div (2 * den)

\* saturate_cast<uchar>
Saturate(v) == IF v < 0 THEN 0 ELSE IF v > 255 THEN 255 ELSE v

RECURSIVE SumF(_, _, _)
\* f[a] + ... + f[b]
SumF(f, a, b) == IF a > b THEN 0 ELSE f[a] + SumF(f, a + 1, b)

SetMin(S) == CHOOSE m \in S : \A n \in S : m <= n
SetMax(S) == CHOOSE m \in S : \A n \in S : m >= n

----------------------------------------------------------------------------
\* Images

NoImage == [h |-> 0, w |-> 0, px |-> <<>>]

Rows(img) == 0 .. img.h - 1
Cols(img) == 0 .. img.w - 1
Pixels(img) == Rows(img) \X Cols(img)

\* the grey levels that occur in a single-channel image
Levels(img) == {img.px[p[1]][p[2]] : p \in Pixels(img)}

\* np.sum(img > 0), cv2.countNonZero
countNonZero(img) == Cardinality({p \in Pixels(img) : img.px[p[1]][p[2]] > 0})

----------------------------------------------------------------------------
\* The inputs of the model: drawings of one stroke colour on one background,
\* each a set of filled rectangles [r0, r1, c0, c1] (inclusive).

Rect(r0, r1, c0, c1) == [r0 |-> r0, r1 |-> r1, c0 |-> c0, c1 |-> c1]

Drawing(mode, h, w, bg, fg, rects) ==
    [mode |-> mode, h |-> h, w |-> w, bg |-> bg, fg |-> fg, rects |-> rects]

InputList == <<
    \* an empty dark canvas
    Drawing("L", 20, 20, 0, 255, {}),
    \* an inverted T: a thin stem on a heavy foot
    Drawing("L", 20, 20, 0, 255, {Rect(0, 16, 9, 9), Rect(17, 19, 0, 19)}),
    \* a 3x3 dot: 9 foreground pixels
    Drawing("L", 20, 20, 0, 255, {Rect(8, 10, 8, 10)}),
    \* an empty light canvas
    Drawing("L", 24, 24, 255, 0, {}),
    \* a dark plus sign on a light background
    Drawing("L", 24, 24, 255, 0, {Rect(2, 21, 10, 13), Rect(10, 13, 2, 21)}),
    \* a block and a stray mark
    Drawing("L", 20, 20, 0, 255, {Rect(2, 17, 3, 8), Rect(2, 3, 15, 16)}),
    \* one bright pixel
    Drawing("L", 20, 20, 0, 255, {Rect(10, 10, 10, 10)}),
    \* a colour image: an L in white on black
    Drawing("RGB", 20, 20, 0, 255, {Rect(0, 19, 2, 4), Rect(17, 19, 2, 17)}),
    \* an empty mid-grey canvas
    Drawing("L", 20, 20, 100, 100, {}),
    \* a 4x4 square: 16 foreground pixels, upscaled
    Drawing("L", 20, 20, 0, 255, {Rect(6, 9, 12, 15)}),
    \* a wide flat bar
    Drawing("L", 24, 24, 0, 255, {Rect(11, 12, 0, 23)}),
    \* a 3x3 image
    Drawing("L", 3, 3, 0, 255, {Rect(1, 1, 1, 1)})
>>

\* how many drawings of InputList the model explores
NumInputs == 9

\* the PIL image of a drawing: px[y][x] is the tuple of the pixel's bands
MakeImage(d) ==
    LET In(y, x) == \E r \in d.rects : r.r0 <= y /\ y <= r.r1 /\ r.c0 <= x /\ x <= r.c1
        Val(y, x) == IF In(y, x) THEN d.fg ELSE d.bg
    IN  [mode |-> d.mode, h |-> d.h, w |-> d.w,
         px |-> [y \in 0 .. d.h - 1 |-> [x \in 0 .. d.w - 1 |->
                    IF d.mode = "L" THEN <<Val(y, x)>>
                    ELSE <<Val(y, x), Val(y, x), Val(y, x)>>]]]

Inputs == {MakeImage(InputList[i]) : i \in 1 .. Min(NumInputs, Len(InputList))}

\* every pixel of the input has the same value
IsBlank(im) == \A p \in Pixels(im), q \in Pixels(im) : im.px[p[1]][p[2]] = im.px[q[1]][q[2]]

----------------------------------------------------------------------------
\* Step 1: image.convert('L') and np.array(image)

\* PIL's ITU-R 601-2 luma transform, L = (19595 R + 38470 G + 7471 B + 0x8000) >> 16
Luma(t) == (19595 * t[1] + 38470 * t[2] + 7471 * t[3] + 32768) \div 65536

ToGray(im) ==
    [h |-> im.h, w |-> im.w,
     px |-> [y \in 0 .. im.h - 1 |-> [x \in 0 .. im.w - 1 |->
                IF im.mode # "L" THEN Luma(im.px[y][x]) ELSE im.px[y][x][1]]]]

\* Step 2: the modal grey level (np.argmax takes the first maximum), and the
\* inversion of a light background
BackgroundVal(g) ==
    LET hist == [v \in Levels(g) |-> Cardinality({p \in Pixels(g) : g.px[p[1]][p[2]] = v})]
    IN  CHOOSE v \in Levels(g) :
            \A u \in Levels(g) : hist[v] > hist[u] \/ (hist[v] = hist[u] /\ v <= u)

CorrectPolarity(g) ==
    IF BackgroundVal(g) > 127
    THEN [h |-> g.h, w |-> g.w,
          px |-> [y \in 0 .. g.h - 1 |-> [x \in 0 .. g.w - 1 |-> 255 - g.px[y][x]]]]
    ELSE g

----------------------------------------------------------------------------
\* Step 3: CLAHE, cv2.createCLAHE(clipLimit=2.0, tileGridSize=(4, 4)).apply

TilesX == 4
TilesY == 4
ClipLimit == 2
HistSize == 256

RECURSIVE Reflect101(_, _)
\* cv2.BORDER_REFLECT_101 of index p in 0 .. len - 1
Reflect101(p, len) ==
    IF len = 1 THEN 0
    ELSE IF p < 0 THEN Reflect101(-p, len)
    ELSE IF p >= len THEN Reflect101(2 * len - 2 - p, len)
    ELSE p

RECURSIVE SumSet(_, _)
\* the sum of f over the set S
SumSet(S, f) ==
    IF S = {} THEN 0
    ELSE LET e == CHOOSE e \in S : TRUE IN f[e] + SumSet(S \ {e}, f)

\* One tile's lookup table at level v: the histogram is clipped at clip, the
\* excess is spread over all bins (a batch to each, the residual one by one
\* at a fixed stride from bin 0), and the cumulative sum is scaled to 0..255.
TileLut(hist, Lv, v, N, clip) ==
    LET clipped == SumSet(Lv, [u \in Lv |-> Max(hist[u] - clip, 0)])
        batch == clipped \div HistSize
        residual == clipped - batch * HistSize
        step == IF residual = 0 THEN 1 ELSE Max(HistSize \div residual, 1)
        spread == IF residual = 0 THEN 0 ELSE Min(residual, v \div step + 1)
        below == {u \in Lv : u <= v}
        cum == SumSet(below, [u \in below |-> Min(hist[u], clip)]) + (v + 1) * batch + spread
    IN  Saturate(RoundDiv(cum * (HistSize - 1), N))

enhance_contrast(g) ==
    LET pad == (g.w % TilesX # 0) \/ (g.h % TilesY # 0)
        eh == IF pad THEN g.h + TilesY - (g.h % TilesY) ELSE g.h
        ew == IF pad THEN g.w + TilesX - (g.w % TilesX) ELSE g.w
        th == eh \div TilesY
        tw == ew \div TilesX
        N == th * tw
        ext == [y \in 0 .. eh - 1 |-> [x \in 0 .. ew - 1 |->
                    g.px[Reflect101(y, g.h)][Reflect101(x, g.w)]]]
        Lv == Levels(g)
        clip == Max((ClipLimit * N) \div HistSize, 1)
        lut == [ty \in 0 .. TilesY - 1 |-> [tx \in 0 .. TilesX - 1 |->
                  LET hist == [v \in Lv |-> Cardinality(
                          {p \in (ty * th .. ty * th + th - 1) \X (tx * tw .. tx * tw + tw - 1) :
                              ext[p[1]][p[2]] = v})]
                  IN  [v \in Lv |-> TileLut(hist, Lv, v, N, clip)]]]
        \* bilinear interpolation between the four nearest tiles' tables
        Interp(y, x) ==
            LET v == g.px[y][x]
                ty0 == (2 * y - th) \div (2 * th)
                tx0 == (2 * x - tw) \div (2 * tw)
                ya == (2 * y - th) - ty0 * 2 * th
                xa == (2 * x - tw) - tx0 * 2 * tw
                ty1 == Max(ty0, 0)
                tx1 == Max(tx0, 0)
                ty2 == Min(ty0 + 1, TilesY - 1)
                tx2 == Min(tx0 + 1, TilesX - 1)
                top == lut[ty1][tx1][v] * (2 * tw - xa) + lut[ty1][tx2][v] * xa
                bot == lut[ty2][tx1][v] * (2 * tw - xa) + lut[ty2][tx2][v] * xa
            IN  Saturate(RoundDiv(top * (2 * th - ya) + bot * ya, 4 * tw * th))
    IN  [h |-> g.h, w |-> g.w,
         px |-> [y \in 0 .. g.h - 1 |-> [x \in 0 .. g.w - 1 |-> Interp(y, x)]]]

----------------------------------------------------------------------------
\* Step 4: adaptive_threshold

\* Naturals beyond the machine integer, as little-endian digit sequences:
\* Otsu's between-class variances are compared exactly.
Base == 100 * 100

RECURSIVE Digits(_)
Digits(n) == IF n < Base THEN <<n>> ELSE <<n % Base>> \o Digits(n \div Base)

RECURSIVE BigScale(_, _, _)
\* a * d + carry, d a digit
BigScale(a, d, carry) ==
    IF a = <<>> THEN (IF carry = 0 THEN <<>> ELSE Digits(carry))
    ELSE LET t == Head(a) * d + carry
         IN  <<t % Base>> \o BigScale(Tail(a), d, t \div Base)

RECURSIVE BigAdd(_, _, _)
BigAdd(a, b, carry) ==
    IF a = <<>> /\ b = <<>> THEN (IF carry = 0 THEN <<>> ELSE <<carry>>)
    ELSE LET x == IF a = <<>> THEN 0 ELSE Head(a)
             y == IF b = <<>> THEN 0 ELSE Head(b)
             t == x + y + carry
         IN  <<t % Base>> \o BigAdd(IF a = <<>> THEN a ELSE Tail(a),
                                    IF b = <<>> THEN b ELSE Tail(b), t \div Base)

RECURSIVE BigMul(_, _)
BigMul(a, b) ==
    IF b = <<>> THEN <<>>
    ELSE BigAdd(BigScale(a, Head(b), 0), <<0>> \o BigMul(a, Tail(b)), 0)

RECURSIVE BigTrim(_)
\* without leading zero digits
BigTrim(a) ==
    IF a = <<>> THEN a
    ELSE IF a[Len(a)] = 0 THEN BigTrim(SubSeq(a, 1, Len(a) - 1)) ELSE a

RECURSIVE BigLessTrimmed(_, _)
BigLessTrimmed(a, b) ==
    IF Len(a) # Len(b) THEN Len(a) < Len(b)
    ELSE IF a = <<>> THEN FALSE
    ELSE IF a[Len(a)] # b[Len(b)] THEN a[Len(a)] < b[Len(b)]
    ELSE BigLessTrimmed(SubSeq(a, 1, Len(a) - 1), SubSeq(b, 1, Len(b) - 1))

BigLess(a, b) == BigLessTrimmed(BigTrim(a), BigTrim(b))

\* a1^2 / b1 > a2^2 / b2, for naturals with b1, b2 > 0
SigmaGreater(a1, b1, a2, b2) ==
    BigLess(BigMul(BigMul(Digits(a2), Digits(a2)), Digits(b1)),
            BigMul(BigMul(Digits(a1), Digits(a1)), Digits(b2)))

RECURSIVE SortedSeq(_)
SortedSeq(S) == IF S = {} THEN <<>> ELSE LET m == SetMin(S) IN <<m>> \o SortedSeq(S \ {m})

RECURSIVE OtsuScan(_, _, _, _, _, _, _, _, _)
\* The scan of getThreshVal_Otsu_8u over the levels that occur: with n1 pixels
\* of sum s1 at or below level i, the between-class variance is
\* (s1 N - S n1)^2 / (N^2 n1 (N - n1)); the first level of greatest variance wins.
OtsuScan(levels, hist, N, S, n1, s1, bestA, bestB, bestV) ==
    IF levels = <<>> THEN bestV
    ELSE LET i == Head(levels)
             m1 == n1 + hist[i]
             t1 == s1 + i * hist[i]
             A == Abs(t1 * N - S * m1)
             B == m1 * (N - m1)
             better == m1 # 0 /\ m1 # N /\ SigmaGreater(A, B, bestA, bestB)
         IN  OtsuScan(Tail(levels), hist, N, S, m1, t1,
                      IF better THEN A ELSE bestA,
                      IF better THEN B ELSE bestB,
                      IF better THEN i ELSE bestV)

OtsuThreshold(g) ==
    LET Lv == Levels(g)
        hist == [v \in Lv |-> Cardinality({p \in Pixels(g) : g.px[p[1]][p[2]] = v})]
        N == g.h * g.w
        S == SumSet(Lv, [v \in Lv |-> v * hist[v]])
    IN  OtsuScan(SortedSeq(Lv), hist, N, S, 0, 0, 0, 1, 0)

\* cv2.threshold(..., THRESH_BINARY): 255 above the threshold, else 0
ThresholdBinary(g, t) ==
    [h |-> g.h, w |-> g.w,
     px |-> [y \in 0 .. g.h - 1 |-> [x \in 0 .. g.w - 1 |->
                IF g.px[y][x] > t THEN 255 ELSE 0]]]

\* the 11-tap Gaussian of sigma 0.3*((11-1)*0.5 - 1) + 0.8 = 2, in 1/1024ths
BlockSize == 11
GaussKernel11 == <<9, 28, 67, 125, 181, 204, 181, 125, 67, 28, 9>>
GaussScale11 == 1024
ThreshOffset == 2

Clamp(i, n) == IF i < 0 THEN 0 ELSE IF i >= n THEN n - 1 ELSE i

\* cv2.adaptiveThreshold(..., ADAPTIVE_THRESH_GAUSSIAN_C, THRESH_BINARY, 11, 2):
\* 255 where the pixel exceeds the Gaussian-weighted mean of its 11x11
\* neighbourhood (border replicated) minus 2
AdaptiveGaussian(g) ==
    LET r == BlockSize \div 2
        horiz == [y \in 0 .. g.h - 1 |-> [x \in 0 .. g.w - 1 |->
                    SumF([k \in 1 .. BlockSize |->
                            GaussKernel11[k] * g.px[y][Clamp(x + k - 1 - r, g.w)]], 1, BlockSize)]]
        mean == [y \in 0 .. g.h - 1 |-> [x \in 0 .. g.w - 1 |->
                    RoundDiv(SumF([k \in 1 .. BlockSize |->
                            GaussKernel11[k] * horiz[Clamp(y + k - 1 - r, g.h)][x]], 1, BlockSize),
                             GaussScale11 * GaussScale11)]]
    IN  [h |-> g.h, w |-> g.w,
         px |-> [y \in 0 .. g.h - 1 |-> [x \in 0 .. g.w - 1 |->
                    IF g.px[y][x] - mean[y][x] > -ThreshOffset THEN 255 ELSE 0]]]

\* the test with the bounds themselves rejected
OtsuRejectedInclusive(white, size) == white * 100 <= size \/ white * 10 >= size * 9

\* white_ratio < 0.01 or white_ratio > 0.9, for white_ratio = white / size
OtsuRejected(white, size) == white * 100 < size \/ white * 10 > size * 9

adaptive_threshold(gray_img) ==
    LET otsu == ThresholdBinary(gray_img, OtsuThreshold(gray_img))
    IN  IF OtsuRejected(countNonZero(otsu), gray_img.h * gray_img.w)
        THEN AdaptiveGaussian(gray_img)
        ELSE otsu

----------------------------------------------------------------------------
\* Step 5: remove_small_components

Foreground(img) == {p \in Pixels(img) : img.px[p[1]][p[2]] > 0}

Neighbours8(p) == {<<p[1] + dy, p[2] + dx>> : dy \in -1 .. 1, dx \in -1 .. 1}

RECURSIVE Flood(_, _, _)
\* the 8-connected component of FG grown from the frontier
Flood(frontier, seen, FG) ==
    IF frontier = {} THEN seen
    ELSE LET nxt == ((UNION {Neighbours8(p) : p \in frontier}) \cap FG) \ seen
         IN  Flood(nxt, seen \cup nxt, FG)

\* the first pixel of S in raster order
RasterFirst(S) ==
    LET y == SetMin({p[1] : p \in S})
    IN  <<y, SetMin({p[2] : p \in {q \in S : q[1] = y}})>>

RECURSIVE ComponentsOf(_)
\* cv2.connectedComponentsWithStats(binary_img, connectivity=8): the foreground
\* components, labelled 1, 2, ... in raster order of their first pixel
ComponentsOf(FG) ==
    IF FG = {} THEN <<>>
    ELSE LET s == RasterFirst(FG)
             c == Flood({s}, {s}, FG)
         IN  <<c>> \o ComponentsOf(FG \ c)

\* 1 + np.argmax(areas): the first label of greatest area
LargestLabel(comps) ==
    CHOOSE l \in 1 .. Len(comps) :
        \A k \in 1 .. Len(comps) :
            Cardinality(comps[l]) > Cardinality(comps[k])
            \/ (Cardinality(comps[l]) = Cardinality(comps[k]) /\ l <= k)

\* noise removal that keeps every component of at least min_size pixels
remove_small_components_by_size(binary_img, min_size) ==
    LET comps == ComponentsOf(Foreground(binary_img))
        keep == UNION {comps[l] : l \in {k \in 1 .. Len(comps) : Cardinality(comps[k]) >= min_size}}
    IN  [h |-> binary_img.h, w |-> binary_img.w,
         px |-> [y \in 0 .. binary_img.h - 1 |-> [x \in 0 .. binary_img.w - 1 |->
                   IF <<y, x>> \in keep THEN 255 ELSE 0]]]

remove_small_components(binary_img, min_size) ==
    LET comps == ComponentsOf(Foreground(binary_img))
        num_labels == 1 + Len(comps)
    IN  IF num_labels <= 1 THEN binary_img
        ELSE LET keep == comps[LargestLabel(comps)]
             IN  [h |-> binary_img.h, w |-> binary_img.w,
                  px |-> [y \in 0 .. binary_img.h - 1 |-> [x \in 0 .. binary_img.w - 1 |->
                            IF <<y, x>> \in keep THEN 255 ELSE 0]]]

MinSizeDefault == 50

\* the early exit: cv2.countNonZero(binary) < 10
MinForeground == 10

----------------------------------------------------------------------------
\* Step 6: cv2.morphologyEx(binary, MORPH_CLOSE, kernel_close)

\* getStructuringElement(MORPH_ELLIPSE, (2, 2)) is [[0, 1], [1, 1]] with its
\* anchor at (1, 1): the offsets (dy, dx) of its set cells from the anchor
KernelClose == {<<-1, 0>>, <<0, -1>>, <<0, 0>>}

InImage(img, y, x) == 0 <= y /\ y < img.h /\ 0 <= x /\ x < img.w

\* cv2.dilate: the maximum over the kernel; cells outside the image do not count
Dilate(img, kernel) ==
    [h |-> img.h, w |-> img.w,
     px |-> [y \in 0 .. img.h - 1 |-> [x \in 0 .. img.w - 1 |->
                SetMax({img.px[y + k[1]][x + k[2]] :
                            k \in {k \in kernel : InImage(img, y + k[1], x + k[2])}})]]]

\* cv2.erode: the minimum over the kernel; cells outside the image do not count
Erode(img, kernel) ==
    [h |-> img.h, w |-> img.w,
     px |-> [y \in 0 .. img.h - 1 |-> [x \in 0 .. img.w - 1 |->
                SetMin({img.px[y + k[1]][x + k[2]] :
                            k \in {k \in kernel : InImage(img, y + k[1], x + k[2])}})]]]

MorphClose(img, kernel) == Erode(Dilate(img, kernel), kernel)

----------------------------------------------------------------------------
\* Step 7: the bounding box with padding, and the crop

Padding == 2

\* [y_min, y_max, x_min, x_max] of the foreground, padded and clamped to the image
BoundingBox(img) ==
    LET coords == Foreground(img)
        ys == {p[1] : p \in coords}
        xs == {p[2] : p \in coords}
    IN  [y_min |-> Max(0, SetMin(ys) - Padding),
         x_min |-> Max(0, SetMin(xs) - Padding),
         y_max |-> Min(img.h - 1, SetMax(ys) + Padding),
         x_max |-> Min(img.w - 1, SetMax(xs) + Padding)]

\* binary[y_min:y_max + 1, x_min:x_max + 1]
Crop(img, b) ==
    [h |-> b.y_max - b.y_min + 1, w |-> b.x_max - b.x_min + 1,
     px |-> [y \in 0 .. b.y_max - b.y_min |-> [x \in 0 .. b.x_max - b.x_min |->
                img.px[y + b.y_min][x + b.x_min]]]]

----------------------------------------------------------------------------
\* Step 8: resize preserving the aspect ratio

TargetSize == 20
CanvasSize == 28

\* a resize that stretches both sides to the target
NewSizeStretch(digit_h, digit_w) == [h |-> TargetSize, w |-> TargetSize]

\* [h, w] of the resized digit: int(target_size * aspect_ratio) and
\* int(target_size / aspect_ratio), aspect_ratio = digit_w / digit_h
NewSize(digit_h, digit_w) ==
    IF digit_h > digit_w
    THEN [h |-> TargetSize, w |-> Max(1, (TargetSize * digit_w) \div digit_h)]
    ELSE [h |-> Max(1, (TargetSize * digit_h) \div digit_w), w |-> TargetSize]

\* cv2.INTER_AREA, both sides shrinking: each destination pixel is the mean of
\* the source area it covers
\* the overlap of source cell s and destination cell d, n source cells mapped to m
Overlap(s, d, n, m) == Max(0, Min((s + 1) * m, (d + 1) * n) - Max(s * m, d * n))

ResizeArea(img, new_h, new_w) ==
    [h |-> new_h, w |-> new_w,
     px |-> [i \in 0 .. new_h - 1 |-> [j \in 0 .. new_w - 1 |->
        LET y0 == (i * img.h) \div new_h
            y1 == ((i + 1) * img.h - 1) \div new_h
            x0 == (j * img.w) \div new_w
            x1 == ((j + 1) * img.w - 1) \div new_w
            row == [y \in y0 .. y1 |->
                      SumF([x \in x0 .. x1 |->
                              Overlap(x, j, img.w, new_w) * img.px[y][x]], x0, x1)]
        IN  Saturate(RoundDiv(
                SumF([y \in y0 .. y1 |-> Overlap(y, i, img.h, new_h) * row[y]], y0, y1),
                img.h * img.w))]]]

\* cv2.INTER_CUBIC on 8-bit data: the four taps of destination index d along
\* an axis of n source cells mapped to m, their weights in 1/2048ths. With
\* x = p/Q the fractional source position and A = -3/4:
\*   w0 = A((x+1)^3 - 5(x+1)^2 + 8(x+1) - 4),  w1 = (A+2)x^3 - (A+3)x^2 + 1,
\*   w2 = w1 at 1 - x,                          w3 = 1 - w0 - w1 - w2
CoefBits == 11

CubicTaps(d, n, m) ==
    LET Q == 2 * m
        P == (2 * d + 1) * n - m
        s == P \div Q
        p == P - s * Q
        U == p + Q
        r == Q - p
        One == 4 * Q * Q * Q
        C0 == -3 * (U * U * U - 5 * U * U * Q + 8 * U * Q * Q - One)
        C1 == 5 * p * p * p - 9 * p * p * Q + One
        C2 == 5 * r * r * r - 9 * r * r * Q + One
        C3 == One - C0 - C1 - C2
        Fix(c) == (2 * c * (2 ^ CoefBits) + One) \div (2 * One)
    IN  [idx |-> [k \in 0 .. 3 |-> Clamp(s - 1 + k, n)],
         coef |-> <<Fix(C0), Fix(C1), Fix(C2), Fix(C3)>>]

ResizeCubic(img, new_h, new_w) ==
    LET tx == [j \in 0 .. new_w - 1 |-> CubicTaps(j, img.w, new_w)]
        ty == [i \in 0 .. new_h - 1 |-> CubicTaps(i, img.h, new_h)]
        horiz == [y \in 0 .. img.h - 1 |-> [j \in 0 .. new_w - 1 |->
                    SumF([k \in 0 .. 3 |-> img.px[y][tx[j].idx[k]] * tx[j].coef[k + 1]], 0, 3)]]
    IN  [h |-> new_h, w |-> new_w,
         px |-> [i \in 0 .. new_h - 1 |-> [j \in 0 .. new_w - 1 |->
            Saturate((SumF([k \in 0 .. 3 |-> horiz[ty[i].idx[k]][j] * ty[i].coef[k + 1]], 0, 3)
                        + 2 ^ (2 * CoefBits - 1)) \div (2 ^ (2 * CoefBits)))]]]

\* cv2.resize(digit, (new_w, new_h), interpolation): INTER_AREA when a side
\* shrinks, else INTER_CUBIC; a resize to the same size is a copy
Resize(img, new_h, new_w) ==
    IF img.h = new_h /\ img.w = new_w THEN img
    ELSE IF img.h > new_h \/ img.w > new_w THEN ResizeArea(img, new_h, new_w)
    ELSE ResizeCubic(img, new_h, new_w)

----------------------------------------------------------------------------
\* Step 9: placement in the 28x28 canvas

PlaceOnCanvas(rz) ==
    LET y_offset == Max(0, (CanvasSize - rz.h) \div 2)
        x_offset == Max(0, (CanvasSize - rz.w) \div 2)
        copy_h == Min(rz.h, CanvasSize - y_offset)
        copy_w == Min(rz.w, CanvasSize - x_offset)
    IN  [h |-> CanvasSize, w |-> CanvasSize,
         px |-> [y \in 0 .. CanvasSize - 1 |-> [x \in 0 .. CanvasSize - 1 |->
                    IF y_offset <= y /\ y < y_offset + copy_h
                       /\ x_offset <= x /\ x < x_offset + copy_w
                    THEN rz.px[y - y_offset][x - x_offset]
                    ELSE 0]]]

----------------------------------------------------------------------------
\* Step 10: center_digit_by_mass

\* the sums of ndimage.center_of_mass: total intensity and first moments
Mass(img) == SumF([y \in Rows(img) |-> SumF(img.px[y], 0, img.w - 1)], 0, img.h - 1)
MomentY(img) == SumF([y \in Rows(img) |-> y * SumF(img.px[y], 0, img.w - 1)], 0, img.h - 1)
MomentX(img) ==
    SumF([y \in Rows(img) |-> SumF([x \in Cols(img) |-> x * img.px[y][x]], 0, img.w - 1)],
         0, img.h - 1)

\* cv2.warpAffine with M = [[1, 0, shift_x], [0, 1, shift_y]] and a zero border
Translate(img, shift_y, shift_x) ==
    [h |-> img.h, w |-> img.w,
     px |-> [y \in 0 .. img.h - 1 |-> [x \in 0 .. img.w - 1 |->
                IF InImage(img, y - shift_y, x - shift_x)
                THEN img.px[y - shift_y][x - shift_x]
                ELSE 0]]]

\* int(13.5 - c) for the centroid c = moment / mass
ShiftOf(moment, mass) == TruncDiv((CanvasSize - 1) * mass - 2 * moment, 2 * mass)

center_digit_by_mass(img_28x28) ==
    LET mass == Mass(img_28x28)
    IN  IF mass = 0 THEN img_28x28    \* the centroid is NaN
        ELSE Translate(img_28x28, ShiftOf(MomentY(img_28x28), mass),
                                  ShiftOf(MomentX(img_28x28), mass))

----------------------------------------------------------------------------
\* Step 11: cv2.GaussianBlur(canvas, (3, 3), 0.5)

\* the 3-tap Gaussian of sigma 0.5 in 8-bit fixed point (0.1065, 0.7870, 0.1065)
GaussKernel3 == <<27, 202, 27>>
GaussBits3 == 8

GaussianBlur3(img) ==
    LET horiz == [y \in 0 .. img.h - 1 |-> [x \in 0 .. img.w - 1 |->
                    SumF([k \in 1 .. 3 |->
                            GaussKernel3[k] * img.px[y][Reflect101(x + k - 2, img.w)]], 1, 3)]]
    IN  [h |-> img.h, w |-> img.w,
         px |-> [y \in 0 .. img.h - 1 |-> [x \in 0 .. img.w - 1 |->
                    (SumF([k \in 1 .. 3 |->
                            GaussKernel3[k] * horiz[Reflect101(y + k - 2, img.h)][x]], 1, 3)
                        + 2 ^ (2 * GaussBits3 - 1)) \div (2 ^ (2 * GaussBits3))]]]

----------------------------------------------------------------------------
\* Steps 12 and 13: renormalisation and the final tensor

ImageMax(img) == SetMax(Levels(img))

\* no renormalisation
RenormalizeNone(img) == img

\* (canvas.astype(np.float32) / canvas.max() * 255).astype(np.uint8)
Renormalize(img) ==
    LET m == ImageMax(img)
    IN  IF m > 0
        THEN [h |-> img.h, w |-> img.w,
              px |-> [y \in 0 .. img.h - 1 |-> [x \in 0 .. img.w - 1 |->
                        ((img.px[y][x] * 255) \div m) % 256]]]
        ELSE img

\* A tensor is [shape, dtype, num, den]: element [0, y, x, 0] is num[y][x] / den.
FinalScale == 255

\* the final tensor without the division by 255
ToTensorUnscaled(img) ==
    [shape |-> <<1, img.h, img.w, 1>>, dtype |-> "float32", num |-> img.px, den |-> 1]

\* np.expand_dims(np.expand_dims(canvas.astype(np.float32) / 255.0, 0), -1)
ToTensor(img) ==
    [shape |-> <<1, img.h, img.w, 1>>, dtype |-> "float32",
     num |-> img.px, den |-> FinalScale]

\* np.zeros((1, 28, 28, 1), dtype=np.float32)
ZeroTensor ==
    [shape |-> <<1, CanvasSize, CanvasSize, 1>>, dtype |-> "float32",
     num |-> [y \in 0 .. CanvasSize - 1 |-> [x \in 0 .. CanvasSize - 1 |-> 0]],
     den |-> 1]

NoTensor == [shape |-> <<>>, dtype |-> "none", num |-> <<>>, den |-> 1]

----------------------------------------------------------------------------
\* preprocess_for_mnist as a step machine. A library call of any step may
\* raise an Exception (cv2.error, ValueError, MemoryError, ...): control then
\* passes to the handler of the enclosing try.

ppInit ==
    /\ image \in Inputs
    /\ fault = "none"
    /\ pc = "gray"
    /\ img_array = NoImage
    /\ img_enhanced = NoImage
    /\ binary = NoImage
    /\ digit = NoImage
    /\ digit_resized = NoImage
    /\ canvas = NoImage
    /\ img_final = NoTensor
    /\ raised = FALSE
    /\ executed = <<>>

\* the step at pc raises: the except clause is entered with nothing assigned
Raise(step) ==
    /\ fault' = step
    /\ pc' = "except"
    /\ executed' = Append(executed, step)
    /\ UNCHANGED <<image, img_array, img_enhanced, binary, digit, digit_resized,
                   canvas, img_final, raised>>

\* the step at pc completes and control moves to nxt
Advance(step, nxt) ==
    /\ pc' = nxt
    /\ executed' = Append(executed, step)
    /\ UNCHANGED <<image, fault, raised>>

\* return value from inside the try
Return(step, value) ==
    /\ img_final' = value
    /\ pc' = "done"
    /\ executed' = Append(executed, step)
    /\ UNCHANGED <<image, fault, raised>>

\* Step 1
ConvertGray ==
    /\ pc = "gray"
    /\ \/ Raise("gray")
       \/ /\ img_array' = ToGray(image)
          /\ Advance("gray", "polarity")
          /\ UNCHANGED <<img_enhanced, binary, digit, digit_resized, canvas, img_final>>
    /\ UNCHANGED <<srvvars, camvars>>

\* Step 2
CorrectBackground ==
    /\ pc = "polarity"
    /\ \/ Raise("polarity")
       \/ /\ img_array' = CorrectPolarity(img_array)
          /\ Advance("polarity", "clahe")
          /\ UNCHANGED <<img_enhanced, binary, digit, digit_resized, canvas, img_final>>
    /\ UNCHANGED <<srvvars, camvars>>

\* Step 3
EnhanceContrast ==
    /\ pc = "clahe"
    /\ \/ Raise("clahe")
       \/ /\ img_enhanced' = enhance_contrast(img_array)
          /\ Advance("clahe", "threshold")
          /\ UNCHANGED <<img_array, binary, digit, digit_resized, canvas, img_final>>
    /\ UNCHANGED <<srvvars, camvars>>

\* Step 4
Threshold ==
    /\ pc = "threshold"
    /\ \/ Raise("threshold")
       \/ /\ binary' = adaptive_threshold(img_enhanced)
          /\ Advance("threshold", "components")
          /\ UNCHANGED <<img_array, img_enhanced, digit, digit_resized, canvas, img_final>>
    /\ UNCHANGED <<srvvars, camvars>>

\* Step 5
RemoveNoise ==
    /\ pc = "components"
    /\ \/ Raise("components")
       \/ /\ binary' = remove_small_components(binary, MinSizeDefault)
          /\ Advance("components", "check")
          /\ UNCHANGED <<img_array, img_enhanced, digit, digit_resized, canvas, img_final>>
    /\ UNCHANGED <<srvvars, camvars>>

\* the content check with the bound itself taken as too little
CheckContentInclusive ==
    /\ pc = "check"
    /\ \/ Raise("check")
       \/ /\ IF countNonZero(binary) <= MinForeground
             THEN Return("check", ZeroTensor)
             ELSE Advance("check", "close") /\ UNCHANGED img_final
          /\ UNCHANGED <<img_array, img_enhanced, binary, digit, digit_resized, canvas>>
    /\ UNCHANGED <<srvvars, camvars>>

\* the early exit on too little content
CheckContent ==
    /\ pc = "check"
    /\ \/ Raise("check")
       \/ /\ IF countNonZero(binary) < MinForeground
             THEN Return("check", ZeroTensor)
             ELSE Advance("check", "close") /\ UNCHANGED img_final
          /\ UNCHANGED <<img_array, img_enhanced, binary, digit, digit_resized, canvas>>
    /\ UNCHANGED <<srvvars, camvars>>

\* Step 6
CloseGaps ==
    /\ pc = "close"
    /\ \/ Raise("close")
       \/ /\ binary' = MorphClose(binary, KernelClose)
          /\ Advance("close", "bbox")
          /\ UNCHANGED <<img_array, img_enhanced, digit, digit_resized, canvas, img_final>>
    /\ UNCHANGED <<srvvars, camvars>>

\* Step 7, with the exit on an empty mask
FindBoundingBox ==
    /\ pc = "bbox"
    /\ \/ Raise("bbox")
       \/ /\ IF Foreground(binary) = {}
             THEN Return("bbox", ZeroTensor) /\ UNCHANGED digit
             ELSE /\ digit' = Crop(binary, BoundingBox(binary))
                  /\ Advance("bbox", "resize")
                  /\ UNCHANGED img_final
          /\ UNCHANGED <<img_array, img_enhanced, binary, digit_resized, canvas>>
    /\ UNCHANGED <<srvvars, camvars>>

\* Step 8
ResizeDigit ==
    /\ pc = "resize"
    /\ \/ Raise("resize")
       \/ /\ LET n == NewSize(digit.h, digit.w)
             IN  digit_resized' = Resize(digit, n.h, n.w)
          /\ Advance("resize", "place")
          /\ UNCHANGED <<img_array, img_enhanced, binary, digit, canvas, img_final>>
    /\ UNCHANGED <<srvvars, camvars>>

\* Step 9
PlaceInCanvas ==
    /\ pc = "place"
    /\ \/ Raise("place")
       \/ /\ canvas' = PlaceOnCanvas(digit_resized)
          /\ Advance("place", "center")
          /\ UNCHANGED <<img_array, img_enhanced, binary, digit, digit_resized, img_final>>
    /\ UNCHANGED <<srvvars, camvars>>

\* Step 10
CenterByMass ==
    /\ pc = "center"
    /\ \/ Raise("center")
       \/ /\ canvas' = center_digit_by_mass(canvas)
          /\ Advance("center", "blur")
          /\ UNCHANGED <<img_array, img_enhanced, binary, digit, digit_resized, img_final>>
    /\ UNCHANGED <<srvvars, camvars>>

\* Step 11
Blur ==
    /\ pc = "blur"
    /\ \/ Raise("blur")
       \/ /\ canvas' = GaussianBlur3(canvas)
          /\ Advance("blur", "renorm")
          /\ UNCHANGED <<img_array, img_enhanced, binary, digit, digit_resized, img_final>>
    /\ UNCHANGED <<srvvars, camvars>>

\* Step 12
Renorm ==
    /\ pc = "renorm"
    /\ \/ Raise("renorm")
       \/ /\ canvas' = Renormalize(canvas)
          /\ Advance("renorm", "scale")
          /\ UNCHANGED <<img_array, img_enhanced, binary, digit, digit_resized, img_final>>
    /\ UNCHANGED <<srvvars, camvars>>

\* Step 13 and the normal return
Finish ==
    /\ pc = "scale"
    /\ \/ Raise("scale")
       \/ /\ Return("scale", ToTensor(canvas))
          /\ UNCHANGED <<img_array, img_enhanced, binary, digit, digit_resized, canvas>>
    /\ UNCHANGED <<srvvars, camvars>>

\* a handler that logs and re-raises
HandleExceptionReraise ==
    /\ pc = "except"
    /\ raised' = TRUE
    /\ pc' = "done"
    /\ UNCHANGED <<image, fault, img_array, img_enhanced, binary, digit, digit_resized,
                   canvas, img_final, executed>>
    /\ UNCHANGED <<srvvars, camvars>>

\* except Exception as e: print(...) and return the blank tensor
HandleException ==
    /\ pc = "except"
    /\ img_final' = ZeroTensor
    /\ pc' = "done"
    /\ UNCHANGED <<image, fault, img_array, img_enhanced, binary, digit, digit_resized,
                   canvas, raised, executed>>
    /\ UNCHANGED <<srvvars, camvars>>

----------------------------------------------------------------------------
\* model.py: the network. A layer is [name, kind, n]; a model is
\* [layers, weights, origin] with origin "artifact" (read from the file),
\* "trained" (built by train_model) or "none" (Python's None).

InputShape == <<28, 28, 1>>
NumClasses == 10

Layer(name, kind, n) == [name |-> name, kind |-> kind, n |-> n]

\* the layers of create_cnn_model in order; unnamed layers get Keras' names
create_cnn_model == <<
    Layer("conv1", "conv_same", 32),
    Layer("batch_normalization", "keep", 0),
    Layer("activation", "keep", 0),
    Layer("pool1", "pool", 2),
    Layer("conv2", "conv_same", 64),
    Layer("batch_normalization_1", "keep", 0),
    Layer("activation_1", "keep", 0),
    Layer("pool2", "pool", 2),
    Layer("conv3", "conv_same", 128),
    Layer("batch_normalization_2", "keep", 0),
    Layer("activation_2", "keep", 0),
    Layer("flatten", "flatten", 0),
    Layer("dense1", "dense", 256),
    Layer("dropout1", "keep", 0),
    Layer("dense2", "dense", 128),
    Layer("dropout2", "keep", 0),
    Layer("predictions", "dense", NumClasses)
>>

\* the output shape of a layer applied to an input of shape s
LayerShape(l, s) ==
    CASE l.kind = "conv_same" -> <<s[1], s[2], l.n>>
      [] l.kind = "pool" -> <<s[1] \div l.n, s[2] \div l.n, s[3]>>
      [] l.kind = "flatten" -> <<s[1] * s[2] * s[3]>>
      [] l.kind = "dense" -> <<l.n>>
      [] OTHER -> s

RECURSIVE ShapeAfter(_, _)
\* the shape of the output of layer k of the sequential stack
ShapeAfter(layers, k) ==
    IF k = 0 THEN InputShape ELSE LayerShape(layers[k], ShapeAfter(layers, k - 1))

HasLayer(m, name) == \E k \in 1 .. Len(m.layers) : m.layers[k].name = name

\* model.get_layer(name).output, for a layer the model has: its name and shape
LayerOutput(m, name) ==
    LET k == CHOOSE k \in 1 .. Len(m.layers) : m.layers[k].name = name
    IN  [layer |-> name, shape |-> ShapeAfter(m.layers, k)]

NoModel == [layers |-> <<>>, weights |-> 0, origin |-> "none"]

\* the weights a model may carry
MaxWeight == 1
Weights == 0 .. MaxWeight

\* model.predict followed by np.argmax: fixed by the weights and the input
Predict(m, img) == (m.weights + img) % NumClasses

\* the layer stack without the layers named in drop
RECURSIVE Without(_, _)
Without(layers, drop) ==
    IF layers = <<>> THEN <<>>
    ELSE IF Head(layers).name \in drop THEN Without(Tail(layers), drop)
    ELSE <<Head(layers)>> \o Without(Tail(layers), drop)

\* the stack with layer `old` named `new`
Renamed(layers, old, new) ==
    [k \in 1 .. Len(layers) |->
        IF layers[k].name = old THEN Layer(new, layers[k].kind, layers[k].n) ELSE layers[k]]

\* The model file at startup: absent, unreadable, or a saved model.
File(exists, readable, layers, weights) ==
    [exists |-> exists, readable |-> readable, layers |-> layers, weights |-> weights]

OldModel == Without(create_cnn_model, {"conv3", "batch_normalization_2", "activation_2"})

Artifacts == {
    File(FALSE, FALSE, <<>>, 0),
    File(TRUE, FALSE, <<>>, 0),
    File(TRUE, TRUE, create_cnn_model, 0),
    File(TRUE, TRUE, OldModel, 0),
    File(TRUE, TRUE, Renamed(create_cnn_model, "conv1", "conv2d"), 0),
    File(TRUE, TRUE, Renamed(OldModel, "conv2", "conv2d_1"), 0),
    File(TRUE, TRUE, Renamed(create_cnn_model, "dense1", "dense"), 0),
    File(TRUE, TRUE, Renamed(create_cnn_model, "predictions", "dense_2"), 0)
}

\* load_model that also trains a new model when the file cannot be read
load_model_fallback(file, trained_weights) ==
    IF file.exists /\ file.readable
    THEN [ok |-> TRUE, file |-> file,
          model |-> [layers |-> file.layers, weights |-> file.weights,
                     origin |-> "artifact"]]
    ELSE [ok |-> TRUE, file |-> File(TRUE, TRUE, create_cnn_model, trained_weights),
          model |-> [layers |-> create_cnn_model, weights |-> trained_weights,
                     origin |-> "trained"]]

\* load_model: the outcome [ok, model, file]; keras.models.load_model raises on
\* a file it cannot read, and a missing file is replaced by a newly trained
\* model that train_model saves at the path
load_model(file, trained_weights) ==
    IF file.exists
    THEN IF file.readable
         THEN [ok |-> TRUE, file |-> file,
               model |-> [layers |-> file.layers, weights |-> file.weights,
                          origin |-> "artifact"]]
         ELSE [ok |-> FALSE, file |-> file, model |-> NoModel]
    ELSE [ok |-> TRUE, file |-> File(TRUE, TRUE, create_cnn_model, trained_weights),
          model |-> [layers |-> create_cnn_model, weights |-> trained_weights,
                     origin |-> "trained"]]

\* the keys of the feature model's outputs
Keys == {"conv1", "conv2", "conv3", "dense1", "predictions"}

NoOutput == [layer |-> "none", shape |-> <<>>]
NoFeature == [built |-> FALSE, outputs |-> [k \in Keys |-> NoOutput]]

\* create_feature_extraction_model without the guarded lookup of conv3
create_feature_extraction_model_strict(base_model) ==
    IF \A k \in Keys : HasLayer(base_model, k)
    THEN [ok |-> TRUE, exc |-> "none",
          fm |-> [built |-> TRUE,
                  outputs |-> [k \in Keys |-> LayerOutput(base_model, k)]]]
    ELSE [ok |-> FALSE, exc |-> "ValueError", fm |-> NoFeature]

\* create_feature_extraction_model: [ok, exc, fm]. get_layer raises ValueError
\* for a name the model lacks; only the lookup of conv3 is guarded.
create_feature_extraction_model(base_model) ==
    LET conv3_ok == HasLayer(base_model, "conv3") \/ HasLayer(base_model, "conv2")
        conv3_output == IF HasLayer(base_model, "conv3")
                        THEN LayerOutput(base_model, "conv3")
                        ELSE LayerOutput(base_model, "conv2")
        rest_ok == \A k \in Keys \ {"conv3"} : HasLayer(base_model, k)
    IN  IF conv3_ok /\ rest_ok
        THEN [ok |-> TRUE, exc |-> "none",
              fm |-> [built |-> TRUE,
                      outputs |-> [k \in Keys |->
                          IF k = "conv3" THEN conv3_output ELSE LayerOutput(base_model, k)]]]
        ELSE [ok |-> FALSE, exc |-> "ValueError", fm |-> NoFeature]

\* get_layer_activations: one predict of the feature model; each entry is the
\* named output evaluated on the input
get_layer_activations(fm, input_image) ==
    [k \in Keys |-> [layer |-> fm.outputs[k].layer, shape |-> fm.outputs[k].shape,
                     of |-> input_image]]

----------------------------------------------------------------------------
\* gradcam.py: the target of an explanation

\* class_idx is <<>> for None, else <<c>>
ClassIdxs == {<<>>, <<-1>>, <<3>>, <<NumClasses>>}
LayerNames == {"conv2", "conv3", "conv9"}

\* generate_gradcam_explanation: the outcome [kind, exc, layer, class, shape].
\* GradCAM.__init__ looks the layer up (ValueError when absent);
\* generate_heatmap indexes predictions[:, class_idx], which wraps a negative
\* index and raises InvalidArgumentError beyond either end; the heat map has
\* the spatial shape of the layer's output.
generate_gradcam_explanation(m, input_image, class_idx, layer_name) ==
    LET c == IF class_idx = <<>> THEN Predict(m, input_image) ELSE class_idx[1]
        Fail(e) == [kind |-> "raise", exc |-> e, layer |-> "none", class |-> -1,
                    shape |-> <<>>]
    IN  IF ~HasLayer(m, layer_name) THEN Fail("ValueError")
        ELSE IF c >= NumClasses \/ c < -NumClasses THEN Fail("InvalidArgumentError")
        ELSE [kind |-> "ok", exc |-> "none", layer |-> layer_name,
              class |-> IF c < 0 THEN c + NumClasses ELSE c,
              shape |-> SubSeq(LayerOutput(m, layer_name).shape, 1, 2)]

\* a direct call and its outcome
NoExplanation ==
    [layer_name |-> "none", class_idx |-> <<>>,
     out |-> [kind |-> "none", exc |-> "none", layer |-> "none", class |-> -1,
              shape |-> <<>>]]

----------------------------------------------------------------------------
\* main.py: the serving process

\* A request image stands for the decoded picture and, with it, the tensor
\* preprocess_for_mnist returns for it (the call returns a tensor for every
\* picture and changes no state); 0 is a string base64_to_image cannot decode.
BadImage == 0
Images == {0, 1}

Request(endpoint, img, class_idx) ==
    [endpoint |-> endpoint, image |-> img, class_idx |-> class_idx]

Requests == {Request("scan", i, <<>>) : i \in Images}
            \cup {Request("explain", i, c) : i \in Images, c \in ClassIdxs}

NoBody == [prediction |-> -1, activations |-> [k \in Keys |-> NoOutput],
           heatmap_shape |-> <<>>, class |-> -1, layer |-> "none"]

Response(req, status, detail, body) ==
    [req |-> req, status |-> status, detail |-> detail, body |-> body]

\* scan_image: the response to req with globals m and fm
scan_image(m, fm, req) ==
    IF m = NoModel \/ fm = NoFeature THEN Response(req, 503, "Model not loaded", NoBody)
    ELSE IF req.image = BadImage THEN Response(req, 400, "Error processing image", NoBody)
    ELSE LET activations == get_layer_activations(fm, req.image)
         IN  Response(req, 200, "",
                 [prediction |-> Predict(m, req.image),
                  activations |-> [k \in Keys |-> [layer |-> activations[k].layer,
                                                   shape |-> activations[k].shape]],
                  heatmap_shape |-> <<>>, class |-> -1, layer |-> "none"])

\* explain_prediction: the response to req with global m
explain_prediction(m, req) ==
    IF m = NoModel THEN Response(req, 503, "Model not loaded", NoBody)
    ELSE IF req.image = BadImage
    THEN Response(req, 400, "Error generating explanation", NoBody)
    ELSE LET prediction == Predict(m, req.image)
             target_class == IF req.class_idx # <<>> THEN req.class_idx[1] ELSE prediction
             out == generate_gradcam_explanation(m, req.image, <<target_class>>, "conv2")
         IN  IF out.kind = "raise"
             THEN Response(req, 400, "Error generating explanation", NoBody)
             ELSE Response(req, 200, "",
                     [prediction |-> prediction,
                      activations |-> [k \in Keys |-> NoOutput],
                      heatmap_shape |-> out.shape, class |-> out.class,
                      layer |-> out.layer])

srvInit ==
    /\ artifact \in Artifacts
    /\ model = NoModel
    /\ feature_model = NoFeature
    /\ phase = "init"
    /\ responses = {}
    /\ explanation = NoExplanation

\* lifespan, model = load_model(model_path)
LoadModel ==
    /\ phase = "init"
    /\ \E w \in Weights :
          LET r == load_model(artifact, w)
          IN  /\ model' = r.model
              /\ artifact' = r.file
              /\ phase' = IF r.ok THEN "loaded" ELSE "failed"
    /\ UNCHANGED <<feature_model, responses, explanation>>
    /\ UNCHANGED <<ppvars, camvars>>

\* lifespan, feature_model = create_feature_extraction_model(model), then yield
BuildFeatureModel ==
    /\ phase = "loaded"
    /\ LET r == create_feature_extraction_model(model)
       IN  /\ feature_model' = r.fm
           /\ phase' = IF r.ok THEN "serving" ELSE "failed"
    /\ UNCHANGED <<artifact, model, responses, explanation>>
    /\ UNCHANGED <<ppvars, camvars>>

\* a /scan handler that loads the model again on every request
ScanReloading ==
    /\ phase = "serving"
    /\ \E req \in {r \in Requests : r.endpoint = "scan"}, w \in Weights :
          /\ responses' = responses \cup {scan_image(model, feature_model, req)}
          /\ model' = [model EXCEPT !.weights = w]
    /\ UNCHANGED <<artifact, feature_model, phase, explanation>>
    /\ UNCHANGED <<ppvars, camvars>>

\* POST /scan
Scan ==
    /\ phase = "serving"
    /\ \E req \in {r \in Requests : r.endpoint = "scan"} :
          responses' = responses \cup {scan_image(model, feature_model, req)}
    /\ UNCHANGED <<artifact, model, feature_model, phase, explanation>>
    /\ UNCHANGED <<ppvars, camvars>>

\* POST /explain
Explain ==
    /\ phase = "serving"
    /\ \E req \in {r \in Requests : r.endpoint = "explain"} :
          responses' = responses \cup {explain_prediction(model, req)}
    /\ UNCHANGED <<artifact, model, feature_model, phase, explanation>>
    /\ UNCHANGED <<ppvars, camvars>>

\* generate_gradcam_explanation called with a layer name and class of the
\* caller's choosing
CallGradcam ==
    /\ phase = "serving"
    /\ \E img \in Images \ {BadImage}, c \in ClassIdxs, l \in LayerNames :
          explanation' = [layer_name |-> l, class_idx |-> c,
                          out |-> generate_gradcam_explanation(model, img, c, l)]
    /\ UNCHANGED <<artifact, model, feature_model, phase, responses>>
    /\ UNCHANGED <<ppvars, camvars>>

----------------------------------------------------------------------------
\* GradCAM.generate_heatmap on numbers: a layer output of two spatial cells
\* and two channels, with integer activations and gradients.

Cells == {1, 2}
Chans == {1, 2}

MaxAct == 1
GradVals == {-1, 0, 1}

\* 1 / keras.backend.epsilon(), epsilon = 1e-7
EpsInv == 10000000

\* A heat map is [num, den]: the entry of cell c is num[c] / den.
NoHeatmap == [num |-> <<>>, den |-> 1]

\* tf.reduce_mean(grads, axis=(0, 1, 2)), times the number of cells
PooledSum(g, ch) == SumSet(Cells, [c \in Cells |-> g[c][ch]])

\* conv_output[0] @ pooled_grads, times the number of cells
WeightedSum(conv, g, c) == SumSet(Chans, [ch \in Chans |-> conv[c][ch] * PooledSum(g, ch)])

\* float32 max + epsilon in units of epsilon / |Cells|: at 2.0 and above half
\* the spacing of float32 exceeds 1e-7 and the sum rounds back to max
AddEpsilon(mx) ==
    IF mx >= 2 * Cardinality(Cells) THEN mx * EpsInv ELSE mx * EpsInv + Cardinality(Cells)

\* normalisation by the maximum alone
generate_heatmap_no_epsilon(conv, g) ==
    LET relu == [c \in Cells |-> Max(WeightedSum(conv, g, c), 0)]
        mx == SetMax({relu[c] : c \in Cells})
    IN  [num |-> [c \in Cells |-> relu[c] * EpsInv], den |-> mx * EpsInv]

generate_heatmap(conv, g) ==
    LET relu == [c \in Cells |-> Max(WeightedSum(conv, g, c), 0)]
        mx == SetMax({relu[c] : c \in Cells})
    IN  [num |-> [c \in Cells |-> relu[c] * EpsInv], den |-> AddEpsilon(mx)]

----------------------------------------------------------------------------
\* gradcam.py: the gradient tape of generate_heatmap. Requests are served by
\* threads, each with its own stack of recording tapes (TensorFlow keeps the
\* stack per thread); a call is numbered when generate_gradcam_explanation
\* starts and its number indexes outcomes.

NumThreads == 2
MaxCalls == 3

Threads == 1 .. NumThreads

\* a thread outside generate_gradcam_explanation
NoCall == [pc |-> "idle", call |-> 0, tape |-> 0]

\* tf.GradientTape(): a tape of a call, with the forward passes it recorded
\* and the gradient requests made of it
GradientTape(call) == [call |-> call, forwards |-> 0, gradients |-> 0]

\* an exit from the with block that leaves the tape recording
pop_tape_none(stack, t) == stack

\* GradientTape.__enter__ and __exit__: start and stop recording on the thread
push_tape(stack, t) == Append(stack, t)
pop_tape(stack, t) == SelectSeq(stack, LAMBDA u : u # t)

\* the tapes recording on a thread
Recording(stack) == {stack[i] : i \in 1 .. Len(stack)}

\* a forward pass on a thread is recorded by every tape recording there
RecordForward(ts, stack) ==
    [t \in DOMAIN ts |->
        IF t \in Recording(stack) THEN [ts[t] EXCEPT !.forwards = @ + 1] ELSE ts[t]]

tapeIdle ==
    /\ hm = [c \in Threads |-> NoCall]
    /\ tape_stack = [c \in Threads |-> <<>>]
    /\ tapes = <<>>
    /\ outcomes = <<>>

\* generate_heatmap is left and its locals are dropped
Leave(c, outcome) ==
    /\ hm' = [hm EXCEPT ![c] = NoCall]
    /\ outcomes' = [outcomes EXCEPT ![hm[c].call] = outcome]

\* the with block is left, normally or by an exception
ExitWith(c) == tape_stack' = [tape_stack EXCEPT ![c] = pop_tape(@, hm[c].tape)]

\* generate_gradcam_explanation: a GradCAM is built and generate_heatmap called
StartCall(c) ==
    /\ hm[c].pc = "idle"
    /\ Len(outcomes) < MaxCalls
    /\ outcomes' = Append(outcomes, "running")
    /\ hm' = [hm EXCEPT ![c] = [pc |-> "with", call |-> Len(outcomes) + 1, tape |-> 0]]
    /\ UNCHANGED <<tape_stack, tapes>>
    /\ UNCHANGED <<conv_output, grads, heatmap, ppvars, srvvars>>

\* with tf.GradientTape() as tape:
EnterTape(c) ==
    /\ hm[c].pc = "with"
    /\ tapes' = Append(tapes, GradientTape(hm[c].call))
    /\ tape_stack' = [tape_stack EXCEPT ![c] = push_tape(@, Len(tapes) + 1)]
    /\ hm' = [hm EXCEPT ![c].pc = "forward", ![c].tape = Len(tapes) + 1]
    /\ UNCHANGED outcomes
    /\ UNCHANGED <<conv_output, grads, heatmap, ppvars, srvvars>>

\* conv_output, predictions = self.grad_model(input_image)
ForwardPass(c) ==
    /\ hm[c].pc = "forward"
    /\ tapes' = RecordForward(tapes, tape_stack[c])
    /\ \/ /\ hm' = [hm EXCEPT ![c].pc = "select"]
          /\ UNCHANGED <<tape_stack, outcomes>>
       \/ /\ ExitWith(c)
          /\ Leave(c, "raised in forward pass")
    /\ UNCHANGED <<conv_output, grads, heatmap, ppvars, srvvars>>

\* class_idx = tf.argmax(predictions[0]) if None; class_score = predictions[:, class_idx];
\* the end of the with block
SelectClass(c) ==
    /\ hm[c].pc = "select"
    /\ ExitWith(c)
    /\ \/ /\ hm' = [hm EXCEPT ![c].pc = "gradient"]
          /\ UNCHANGED outcomes
       \/ Leave(c, "raised in class selection")
    /\ UNCHANGED tapes
    /\ UNCHANGED <<conv_output, grads, heatmap, ppvars, srvvars>>

\* grads = tape.gradient(class_score, conv_output)
RequestGradient(c) ==
    /\ hm[c].pc = "gradient"
    /\ tapes' = [tapes EXCEPT ![hm[c].tape].gradients = @ + 1]
    /\ ExitWith(c)
    /\ \/ /\ hm' = [hm EXCEPT ![c].pc = "tail"]
          /\ UNCHANGED outcomes
       \/ Leave(c, "raised in gradient")
    /\ UNCHANGED <<conv_output, grads, heatmap, ppvars, srvvars>>

\* pooling, weighted sum, ReLU, normalisation and return heatmap.numpy()
ReturnHeatmap(c) ==
    /\ hm[c].pc = "tail"
    /\ \/ Leave(c, "returned")
       \/ Leave(c, "raised after gradient")
    /\ UNCHANGED <<tape_stack, tapes>>
    /\ UNCHANGED <<conv_output, grads, heatmap, ppvars, srvvars>>

----------------------------------------------------------------------------
\* One call of generate_heatmap on given layer outputs and gradients

camInit ==
    /\ conv_output \in [Cells -> [Chans -> -MaxAct .. MaxAct]]
    /\ grads \in [Cells -> [Chans -> GradVals]]
    /\ heatmap = NoHeatmap
    /\ tapeIdle

GenerateHeatmap ==
    /\ heatmap = NoHeatmap
    /\ heatmap' = generate_heatmap(conv_output, grads)
    /\ UNCHANGED <<conv_output, grads, tapevars>>
    /\ UNCHANGED <<ppvars, srvvars>>

----------------------------------------------------------------------------
\* The specifications. Each runs one part of the backend and holds the
\* variables of the others at their initial values.

ppIdle ==
    /\ image = NoImage /\ fault = "none" /\ pc = "idle"
    /\ img_array = NoImage /\ img_enhanced = NoImage /\ binary = NoImage
    /\ digit = NoImage /\ digit_resized = NoImage /\ canvas = NoImage
    /\ img_final = NoTensor /\ raised = FALSE /\ executed = <<>>

srvIdle ==
    /\ artifact = File(FALSE, FALSE, <<>>, 0) /\ model = NoModel
    /\ feature_model = NoFeature /\ phase = "idle" /\ responses = {}
    /\ explanation = NoExplanation

camIdle ==
    /\ conv_output = <<>> /\ grads = <<>> /\ heatmap = NoHeatmap
    /\ tapeIdle

\* one call of preprocess_for_mnist
Init == ppInit /\ srvIdle /\ camIdle

Next ==
    \/ ConvertGray \/ CorrectBackground \/ EnhanceContrast \/ Threshold \/ RemoveNoise
    \/ CheckContent \/ CloseGaps \/ FindBoundingBox \/ ResizeDigit \/ PlaceInCanvas
    \/ CenterByMass \/ Blur \/ Renorm \/ Finish \/ HandleException

Spec == Init /\ [][Next]_vars

\* the serving process from startup on
InitServer == srvInit /\ ppIdle /\ camIdle

NextServer == LoadModel \/ BuildFeatureModel \/ Scan \/ Explain \/ CallGradcam

SpecServer == InitServer /\ [][NextServer]_vars

\* one call of GradCAM.generate_heatmap
InitCam == camInit /\ ppIdle /\ srvIdle

NextCam == GenerateHeatmap

SpecCam == InitCam /\ [][NextCam]_vars

\* explanation requests on the threads of the server
InitTape ==
    /\ conv_output = <<>> /\ grads = <<>> /\ heatmap = NoHeatmap
    /\ tapeIdle /\ ppIdle /\ srvIdle

NextTape ==
    \E c \in Threads :
        \/ StartCall(c) \/ EnterTape(c) \/ ForwardPass(c) \/ SelectClass(c)
        \/ RequestGradient(c) \/ ReturnHeatmap(c)

SpecTape == InitTape /\ [][NextTape]_vars

----------------------------------------------------------------------------
\* Properties of preprocess_for_mnist (specification Spec)

TensorShape == <<1, CanvasSize, CanvasSize, 1>>

\* the all-zero (1, 28, 28, 1) float tensor
IsZeroTensor(t) ==
    /\ t.shape = TensorShape
    /\ t.dtype = "float32"
    /\ \A y \in 0 .. CanvasSize - 1, x \in 0 .. CanvasSize - 1 : t.num[y][x] = 0

\* shape (1, 28, 28, 1), float, every value in [0, 1]
WellFormed(t) ==
    /\ t.shape = TensorShape
    /\ t.dtype = "float32"
    /\ t.den > 0
    /\ \A y \in 0 .. CanvasSize - 1, x \in 0 .. CanvasSize - 1 :
          0 <= t.num[y][x] /\ t.num[y][x] <= t.den

\* the canvas of a returned tensor, as an image of numerators
TensorCanvas(t) == [h |-> CanvasSize, w |-> CanvasSize, px |-> t.num]

\* the intensity-weighted centroid lies within 1 pixel of (13.5, 13.5)
CentroidWithinOne(t) ==
    LET c == TensorCanvas(t)
        m == Mass(c)
    IN  /\ m > 0
        /\ Abs(2 * MomentY(c) - (CanvasSize - 1) * m) <= 2 * m
        /\ Abs(2 * MomentX(c) - (CanvasSize - 1) * m) <= 2 * m

\* C1: preprocess_for_mnist never raises to its caller: no exception leaves
\* the call, every finished call has returned a tensor, and a call in which
\* a step raised has returned the all-zero (1,28,28,1) tensor.
C1_NeverRaises ==
    /\ ~raised
    /\ pc = "done" => img_final # NoTensor
    /\ (pc = "done" /\ fault # "none") => IsZeroTensor(img_final)

\* a call whose renormalisation step raised has returned the zero tensor
C1_Witness == pc = "done" /\ fault = "renorm" /\ IsZeroTensor(img_final)

C3_BlankYieldsZero ==
    (pc = "done" /\ fault = "none" /\ IsBlank(image)) => IsZeroTensor(img_final)

\* C4: for an input with at least one foreground pixel, the centroid of the
\* returned canvas lies within 1 pixel of (13.5, 13.5) in both axes.
C4_CentroidWithinOnePixel ==
    (pc = "done" /\ fault = "none" /\ ~IsBlank(image)) => CentroidWithinOne(img_final)

----------------------------------------------------------------------------
\* Properties of GradCAM.generate_heatmap (specification SpecCam)

GradientZero == \A c \in Cells, ch \in Chans : grads[c][ch] = 0

HeatmapAllZero == \A c \in Cells : heatmap.num[c] = 0

HeatmapInUnit ==
    /\ heatmap.den > 0
    /\ \A c \in Cells : 0 <= heatmap.num[c] /\ heatmap.num[c] <= heatmap.den

HeatmapHasOne == \E c \in Cells : heatmap.num[c] = heatmap.den

\* the channel-weighted sum is positive at some cell
PositiveSomewhere == \E c \in Cells : WeightedSum(conv_output, grads, c) > 0

\* the largest weighted sum is at least 2.0
MaxAtLeastTwo == \E c \in Cells : WeightedSum(conv_output, grads, c) >= 2 * Cardinality(Cells)

\* C5 as stated: values in [0,1], and an entry equal to 1.0 unless the
\* gradient is uniformly zero, in which case the map is all zeros.
C5_Original ==
    heatmap # NoHeatmap =>
        /\ HeatmapInUnit
        /\ IF GradientZero THEN HeatmapAllZero ELSE HeatmapHasOne

\* C5 amended: values in [0,1]; the map is all zeros exactly when the
\* weighted sum is positive nowhere (a zero gradient is one such case);
\* otherwise the largest entry is max / (max + epsilon), which is 1.0 only
\* when float32 addition absorbs epsilon (max >= 2.0) and below 1.0 otherwise.
C5_HeatmapRange ==
    heatmap # NoHeatmap =>
        /\ HeatmapInUnit
        /\ HeatmapAllZero <=> ~PositiveSomewhere
        /\ GradientZero => HeatmapAllZero
        /\ HeatmapHasOne <=> MaxAtLeastTwo

\* a non-zero gradient with a positive weighted sum below 2.0: no entry is 1.0
C5_Witness ==
    /\ heatmap # NoHeatmap
    /\ ~GradientZero /\ PositiveSomewhere /\ ~MaxAtLeastTwo
    /\ ~HeatmapHasOne

----------------------------------------------------------------------------
\* Properties of the serving process (specification SpecServer)

Required == Keys \ {"conv3"}

Ok(r) == r.status = 200

\* C6: for the model built by create_cnn_model, conv1 is captured as
\* 14x14x32, conv2 as 7x7x64 and conv3 as 7x7x128, and the /explain heat map
\* is 7x7.
C6_CapturedShapes ==
    \A r \in responses :
        (Ok(r) /\ model.layers = create_cnn_model) =>
            IF r.req.endpoint = "scan"
            THEN /\ r.body.activations["conv1"].shape = <<14, 14, 32>>
                 /\ r.body.activations["conv2"].shape = <<7, 7, 64>>
                 /\ r.body.activations["conv3"].shape = <<7, 7, 128>>
            ELSE r.body.heatmap_shape = <<7, 7>>

InvalidClass(c) == c # <<>> /\ (c[1] < 0 \/ c[1] >= NumClasses)

\* C7: a layer name the model lacks, or a class index outside 0..9, fails
\* with InvalidTargetError, at the function and at the /explain boundary;
\* no heat map is returned for another layer or class.
C7_InvalidTargetError ==
    /\ \A r \in responses :
          (r.req.endpoint = "explain" /\ r.req.image # BadImage
           /\ InvalidClass(r.req.class_idx)) =>
              (~Ok(r) /\ r.detail = "InvalidTargetError")
    /\ (explanation # NoExplanation
        /\ (~HasLayer(model, explanation.layer_name) \/ InvalidClass(explanation.class_idx))) =>
              (explanation.out.kind = "raise" /\ explanation.out.exc = "InvalidTargetError")

\* the output the feature model must give for key k
Expected(k) ==
    IF k = "conv3" /\ ~HasLayer(model, "conv3")
    THEN LayerOutput(model, "conv2")
    ELSE LayerOutput(model, k)

\* C8: activation capture yields the five keys; conv3 is substituted by conv2
\* exactly when the model has no conv3, and that is the only substitution:
\* a model lacking conv1, conv2, dense1 or predictions does not start, and a
\* model lacking only conv3 does.
C8_ActivationCapture ==
    /\ phase = "serving" =>
          /\ feature_model.built
          /\ \A k \in Keys : feature_model.outputs[k] = Expected(k)
    /\ \A r \in responses :
          (r.req.endpoint = "scan" /\ Ok(r)) =>
              /\ DOMAIN r.body.activations = Keys
              /\ \A k \in Keys :
                    /\ r.body.activations[k].layer = Expected(k).layer
                    /\ r.body.activations[k].shape = Expected(k).shape
    /\ (model # NoModel /\ \E k \in Required : ~HasLayer(model, k)) => phase # "serving"
    /\ (model # NoModel /\ phase = "failed") => \E k \in Required : ~HasLayer(model, k)

\* a model without conv3 serves a scan whose conv3 entry is the conv2 output
C8_Witness ==
    /\ phase = "serving" /\ ~HasLayer(model, "conv3")
    /\ \E r \in responses :
          /\ r.req.endpoint = "scan" /\ Ok(r)
          /\ r.body.activations["conv3"].layer = "conv2"

\* every response is the handler's function of its own request and the
\* loaded model
C9_Independent ==
    \A r \in responses :
        r = IF r.req.endpoint = "scan"
            THEN scan_image(model, feature_model, r.req)
            ELSE explain_prediction(model, r.req)

\* once assigned, the globals keep their values
C9_NoReassign ==
    /\ model # NoModel => model' = model
    /\ feature_model # NoFeature => feature_model' = feature_model

\* C9: over any interleaving of /scan and /explain requests the model and the
\* feature model are assigned once, at startup, and never reassigned; each
\* response depends only on its own request and the loaded model.
C9_LoadedOnceReadOnly == [][C9_NoReassign]_vars /\ []C9_Independent

\* a scan and an explanation have both been answered
C9_Witness ==
    /\ phase = "serving"
    /\ \E r \in responses : r.req.endpoint = "scan" /\ Ok(r)
    /\ \E r \in responses : r.req.endpoint = "explain" /\ Ok(r)

C10_Startup ==
    /\ (phase = "init" /\ artifact.exists /\ ~artifact.readable) =>
          (phase' = "failed" /\ model' = NoModel /\ artifact' = artifact)
    /\ (phase = "init" /\ ~artifact.exists) =>
          /\ phase' = "loaded"
          /\ model'.origin = "trained" /\ model'.layers = create_cnn_model
          /\ artifact' = File(TRUE, TRUE, model'.layers, model'.weights)
    /\ (phase = "init" /\ artifact.exists /\ artifact.readable) =>
          /\ phase' = "loaded"
          /\ model' = [layers |-> artifact.layers, weights |-> artifact.weights,
                       origin |-> "artifact"]
          /\ artifact' = artifact

\* requests are answered only by a process whose startup completed
C10_Serving ==
    /\ responses # {} => phase = "serving"
    /\ phase = "serving" =>
          /\ model # NoModel /\ feature_model.built
          /\ \A k \in Required : HasLayer(model, k)
          /\ artifact = File(TRUE, TRUE, model.layers, model.weights)
    /\ (model # NoModel /\ \E k \in Required : ~HasLayer(model, k)) => phase # "serving"

----------------------------------------------------------------------------
\* adaptive_threshold on its own (specification SpecThreshold): the call of
\* Step 4 on two-level grey images with every number of bright pixels.

ThreshRows == 10

\* an image whose first k pixels in raster order are at hi, the rest at lo
TwoLevel(h, w, k, lo, hi) ==
    [h |-> h, w |-> w,
     px |-> [y \in 0 .. h - 1 |-> [x \in 0 .. w - 1 |-> IF y * w + x < k THEN hi ELSE lo]]]

ThreshInputs ==
    {TwoLevel(ThreshRows, 2 * ThreshRows, k, lv[1], lv[2]) :
        k \in 0 .. 2 * ThreshRows * ThreshRows, lv \in {<<0, 255>>, <<90, 110>>}}

InitThreshold ==
    /\ image = NoImage /\ fault = "none" /\ pc = "threshold"
    /\ img_array = NoImage /\ img_enhanced \in ThreshInputs /\ binary = NoImage
    /\ digit = NoImage /\ digit_resized = NoImage /\ canvas = NoImage
    /\ img_final = NoTensor /\ raised = FALSE /\ executed = <<>>
    /\ srvIdle /\ camIdle

SpecThreshold == InitThreshold /\ [][Threshold]_vars

\* Step 4 has returned
Thresholded == pc = "components" /\ fault = "none"

OtsuMask == ThresholdBinary(img_enhanced, OtsuThreshold(img_enhanced))
OtsuWhite == countNonZero(OtsuMask)
GraySize == img_enhanced.h * img_enhanced.w

\* C11 as stated: the Otsu mask is returned only for a foreground fraction f
\* with 0.01 < f < 0.9; for every other f the Gaussian adaptive result is.
C11_Original ==
    Thresholded =>
        binary = IF 100 * OtsuWhite > GraySize /\ 10 * OtsuWhite < 9 * GraySize
                 THEN OtsuMask
                 ELSE AdaptiveGaussian(img_enhanced)

\* C11 amended: the Otsu mask is returned exactly when 0.01 <= f <= 0.9 (both
\* bounds accepted); for f < 0.01 or f > 0.9 the Gaussian adaptive threshold
\* result (block size 11, offset 2) is returned.
C11_ClosedInterval ==
    Thresholded =>
        binary = IF 100 * OtsuWhite >= GraySize /\ 10 * OtsuWhite <= 9 * GraySize
                 THEN OtsuMask
                 ELSE AdaptiveGaussian(img_enhanced)

\* f is exactly 0.01 and the Otsu mask, which differs from the adaptive
\* result, is returned
C11_Witness ==
    /\ Thresholded
    /\ 100 * OtsuWhite = GraySize
    /\ binary = OtsuMask
    /\ OtsuMask # AdaptiveGaussian(img_enhanced)

----------------------------------------------------------------------------
\* remove_small_components on its own (specification SpecComponents): the
\* call of Step 5 on every binary mask of a small grid.

MaskRows == 3
MaskCols == 3

MaskInputs ==
    {[h |-> MaskRows, w |-> MaskCols, px |-> px] :
        px \in [0 .. MaskRows - 1 -> [0 .. MaskCols - 1 -> {0, 255}]]}

\* the mask handed to Step 5 is kept in img_enhanced for reference
InitComponents ==
    /\ image = NoImage /\ fault = "none" /\ pc = "components"
    /\ img_array = NoImage /\ binary \in MaskInputs /\ img_enhanced = binary
    /\ digit = NoImage /\ digit_resized = NoImage /\ canvas = NoImage
    /\ img_final = NoTensor /\ raised = FALSE /\ executed = <<>>
    /\ srvIdle /\ camIdle

SpecComponents == InitComponents /\ [][RemoveNoise]_vars

\* Step 5 has returned: img_enhanced is its argument, binary its result
Denoised == pc = "check" /\ fault = "none"

\* p comes before q in raster order
RasterBefore(p, q) == p[1] < q[1] \/ (p[1] = q[1] /\ p[2] < q[2])

\* K is one whole 8-connected component of FG
IsComponent(K, FG) ==
    /\ K # {} /\ K \subseteq FG
    /\ Flood({RasterFirst(K)}, {RasterFirst(K)}, K) = K
    /\ \A p \in FG \ K : Neighbours8(p) \cap K = {}

\* the number of 8-connected components of FG
NumComponents(FG) == Cardinality({Flood({p}, {p}, FG) : p \in FG})

----------------------------------------------------------------------------
\* preprocess_for_mnist from the content check on (specification SpecCheck):
\* the mask that survived Step 5 is a horizontal bar of k pixels.

MaxBar == 12

\* a two-level image with a bar of k pixels in row 10
Bar(k) ==
    [h |-> 20, w |-> 20,
     px |-> [y \in 0 .. 19 |-> [x \in 0 .. 19 |->
                IF y = 10 /\ 3 <= x /\ x < 3 + k THEN 255 ELSE 0]]]

InitCheck ==
    /\ image = NoImage /\ fault = "none" /\ pc = "check"
    /\ \E k \in 0 .. MaxBar :
          /\ binary = Bar(k) /\ img_array = Bar(k) /\ img_enhanced = Bar(k)
    /\ digit = NoImage /\ digit_resized = NoImage /\ canvas = NoImage
    /\ img_final = NoTensor /\ raised = FALSE
    /\ executed = <<"gray", "polarity", "clahe", "threshold", "components">>
    /\ srvIdle /\ camIdle

SpecCheck ==
    InitCheck /\ [][CheckContent \/ CloseGaps \/ FindBoundingBox \/ ResizeDigit
                    \/ PlaceInCanvas \/ CenterByMass \/ Blur \/ Renorm \/ Finish
                    \/ HandleException]_vars

\* the steps after the content check
LaterSteps == {"close", "bbox", "resize", "place", "center", "blur", "renorm", "scale"}

Ran(step) == \E i \in 1 .. Len(executed) : executed[i] = step

\* C13: with fewer than 10 surviving foreground pixels the call returns the
\* all-zero tensor at the content check and no later step runs; with 10 or
\* more the early exit is not taken.
C13_EarlyExit ==
    /\ (pc = "done" /\ fault = "none" /\ ~Ran("close")) =>
          /\ countNonZero(binary) < 10
          /\ IsZeroTensor(img_final)
          /\ executed[Len(executed)] = "check"
          /\ \A s \in LaterSteps : ~Ran(s)
          /\ digit = NoImage /\ digit_resized = NoImage /\ canvas = NoImage
    /\ pc = "close" => countNonZero(binary) >= 10
    /\ (Ran("check") /\ fault # "check") => pc \in {"done", "close"} \/ Ran("close")

\* nine surviving pixels: the zero tensor is returned at the check
C13_Witness ==
    /\ pc = "done" /\ fault = "none"
    /\ countNonZero(binary) = 9
    /\ executed[Len(executed)] = "check"
    /\ IsZeroTensor(img_final)

----------------------------------------------------------------------------
\* Steps 8 and 9 on their own (specification SpecResize): the crop is a
\* region of any height and width that holds at least the ten pixels the
\* content check asks for; a blank drawing of that size yields it filled.

MaxSide == 22

\* a filled crop of height h and width w
Solid(h, w) == [h |-> h, w |-> w, px |-> [y \in 0 .. h - 1 |-> [x \in 0 .. w - 1 |-> 255]]]

InitResize ==
    /\ image = NoImage /\ fault = "none" /\ pc = "resize"
    /\ \E h \in 1 .. MaxSide, w \in 1 .. MaxSide :
          /\ h * w >= MinForeground
          /\ digit = Solid(h, w) /\ binary = Solid(h, w)
          /\ img_array = Solid(h, w) /\ img_enhanced = Solid(h, w)
    /\ digit_resized = NoImage /\ canvas = NoImage
    /\ img_final = NoTensor /\ raised = FALSE
    /\ executed = <<"gray", "polarity", "clahe", "threshold", "components", "check",
                    "close", "bbox">>
    /\ srvIdle /\ camIdle

SpecResize == InitResize /\ [][ResizeDigit \/ PlaceInCanvas \/ HandleException]_vars

\* the target of the shorter side
ShortTarget(digit_h, digit_w) ==
    Max(1, (20 * Min(digit_h, digit_w)) \div Max(digit_h, digit_w))

\* Step 8 has run
Resized == fault = "none" /\ pc \in {"place", "center"}

\* Step 9 has run
Placed == fault = "none" /\ pc = "center"

\* C14: for a crop of height h >= 1 and width w >= 1 the longer side goes to
\* exactly 20 (the width when h = w) and the shorter to
\* max(1, floor(20 * shorter / longer)); both lie in 1..20, the paste offsets
\* floor((28 - dim) / 2) are at least 4, and the resized digit is on the
\* canvas whole.
C14_ResizeAndPlace ==
    /\ Resized =>
          /\ digit.h >= 1 /\ digit.w >= 1
          /\ digit_resized.h = (IF digit.h > digit.w THEN 20 ELSE ShortTarget(digit.h, digit.w))
          /\ digit_resized.w = (IF digit.h > digit.w THEN ShortTarget(digit.h, digit.w) ELSE 20)
          /\ digit_resized.h \in 1 .. 20 /\ digit_resized.w \in 1 .. 20
          /\ DOMAIN digit_resized.px = 0 .. digit_resized.h - 1
          /\ \A y \in Rows(digit_resized) : DOMAIN digit_resized.px[y] = 0 .. digit_resized.w - 1
    /\ Placed =>
          LET y_off == (28 - digit_resized.h) \div 2
              x_off == (28 - digit_resized.w) \div 2
          IN  /\ y_off >= 4 /\ x_off >= 4
              /\ y_off + digit_resized.h <= 28 /\ x_off + digit_resized.w <= 28
              /\ canvas.h = 28 /\ canvas.w = 28
              /\ \A p \in Pixels(digit_resized) :
                    canvas.px[p[1] + y_off][p[2] + x_off] = digit_resized.px[p[1]][p[2]]
              /\ \A p \in Pixels(canvas) :
                    (p[1] < y_off \/ p[1] >= y_off + digit_resized.h
                        \/ p[2] < x_off \/ p[2] >= x_off + digit_resized.w)
                    => canvas.px[p[1]][p[2]] = 0

\* a one-row crop wider than 20: the height would round down to 0 and is 1
C14_Witness ==
    /\ Placed
    /\ digit.h = 1 /\ digit.w > 20
    /\ digit_resized.h = 1 /\ digit_resized.w = 20
    /\ canvas.px[13][4] = digit_resized.px[0][0]
    /\ Mass(canvas) > 0

----------------------------------------------------------------------------
\* center_digit_by_mass on the canvas that Step 9 produced

\* Step 10 has returned: canvas is its result, PlaceOnCanvas(digit_resized) its argument
Centered == pc = "blur" /\ fault = "none"

\* |13.5 - moment / mass| < 1
WithinRemainder(moment, mass) == Abs((CanvasSize - 1) * mass - 2 * moment) < 2 * mass

\* C15: for a non-empty canvas from the placement step the translation
\* carries all foreground content and the centroid of the returned canvas is
\* at (13.5, 13.5) up to the sub-pixel remainder of the integer shift; an
\* empty canvas is returned unchanged, without an error.
C15_CentringCarriesContent ==
    Centered =>
        LET placed == PlaceOnCanvas(digit_resized)
        IN  IF Mass(placed) = 0
            THEN canvas = placed
            ELSE /\ Mass(canvas) = Mass(placed)
                 /\ Cardinality(Foreground(canvas)) = Cardinality(Foreground(placed))
                 /\ WithinRemainder(MomentY(canvas), Mass(canvas))
                 /\ WithinRemainder(MomentX(canvas), Mass(canvas))

----------------------------------------------------------------------------
\* preprocess_for_mnist from the placement on (specification SpecRenorm): the
\* resized digit is a blob of any peak level. INTER_AREA averages the crop,
\* so a thin stroke in a large crop comes out dim, down to all zero.

MaxDim == 60

\* a 20x20 resized digit: a centred 4x4 block of level v in a ring of level v / 2
Blob(v) ==
    [h |-> TargetSize, w |-> TargetSize,
     px |-> [y \in 0 .. TargetSize - 1 |-> [x \in 0 .. TargetSize - 1 |->
                IF y \in 8 .. 11 /\ x \in 8 .. 11 THEN v
                ELSE IF y \in 7 .. 12 /\ x \in 7 .. 12 THEN v \div 2
                ELSE 0]]]

InitRenorm ==
    /\ image = NoImage /\ fault = "none" /\ pc = "place"
    /\ img_array = NoImage /\ img_enhanced = NoImage /\ binary = NoImage /\ digit = NoImage
    /\ \E k \in 0 .. MaxDim : digit_resized \in {Blob(k), Blob(255 - k)}
    /\ canvas = NoImage
    /\ img_final = NoTensor /\ raised = FALSE
    /\ executed = <<"gray", "polarity", "clahe", "threshold", "components", "check",
                    "close", "bbox", "resize">>
    /\ srvIdle /\ camIdle

SpecRenorm ==
    InitRenorm /\ [][PlaceInCanvas \/ CenterByMass \/ Blur \/ Renorm \/ Finish
                     \/ HandleException]_vars

\* the canvas that Step 12 receives
Blurred == GaussianBlur3(center_digit_by_mass(PlaceOnCanvas(digit_resized)))

\* Step 12 has run
Renormalized == fault = "none" /\ (pc = "scale" \/ (pc = "done" /\ Ran("scale")))

\* C16: renormalisation maps the maximum pixel of the blurred canvas to 255,
\* so every returned tensor is identically zero or has a maximum of exactly
\* 1.0; a canvas whose maximum is 0 is left unchanged, with no division by
\* zero.
C16_FullRange ==
    /\ Renormalized =>
          LET blurred == Blurred
              top == ImageMax(blurred)
          IN  IF top = 0
              THEN canvas = blurred
              ELSE /\ ImageMax(canvas) = 255
                   /\ \A p \in Pixels(canvas) :
                         blurred.px[p[1]][p[2]] = top <=> canvas.px[p[1]][p[2]] = 255
    /\ pc = "done" =>
          \/ IsZeroTensor(img_final)
          \/ /\ img_final.shape = TensorShape
             /\ ImageMax(TensorCanvas(img_final)) = img_final.den

\* a dim canvas was stretched to the full range and returned with maximum 1.0
C16_Witness ==
    /\ pc = "done" /\ fault = "none"
    /\ ImageMax(Blurred) \in 1 .. 254
    /\ ImageMax(canvas) = 255
    /\ ImageMax(TensorCanvas(img_final)) = img_final.den /\ img_final.den = 255

\* an all-zero canvas passed the renormalisation unchanged
C16_WitnessZero ==
    /\ pc = "scale" /\ fault = "none"
    /\ ImageMax(Blurred) = 0 /\ canvas = Blurred

----------------------------------------------------------------------------
\* Properties of the gradient tapes (specification SpecTape)

\* the tapes created by call k
TapesOf(k) == {t \in DOMAIN tapes : tapes[t].call = k}

\* tape t is recording on some thread
IsRecording(t) == \E c \in Threads : t \in Recording(tape_stack[c])

\* C17: each call of generate_heatmap opens exactly one recording context,
\* runs exactly one forward pass inside it and requests gradients from it
\* exactly once; the context is released on every exit path (normal return,
\* an exception in the forward pass, the class selection or the gradient
\* computation); no context is shared between two requests or survives from
\* one into another, in any interleaving.
C17_OneTapePerCall ==
    /\ \A k \in 1 .. Len(outcomes) :
          /\ Cardinality(TapesOf(k)) <= 1
          /\ \A t \in TapesOf(k) :
                /\ tapes[t].forwards <= 1 /\ tapes[t].gradients <= 1
                /\ tapes[t].gradients = 1 => tapes[t].forwards = 1
          /\ outcomes[k] # "running" =>
                /\ Cardinality(TapesOf(k)) = 1
                /\ \A t \in TapesOf(k) : ~IsRecording(t) /\ tapes[t].forwards = 1
          /\ outcomes[k] \in {"returned", "raised in gradient", "raised after gradient"} =>
                \A t \in TapesOf(k) : tapes[t].gradients = 1
          /\ outcomes[k] \in {"raised in forward pass", "raised in class selection"} =>
                \A t \in TapesOf(k) : tapes[t].gradients = 0
    /\ \A c \in Threads :
          /\ tape_stack[c] # <<>> =>
                /\ hm[c].pc \in {"forward", "select"}
                /\ tape_stack[c] = <<hm[c].tape>>
          /\ hm[c].pc \in {"forward", "select"} => tape_stack[c] = <<hm[c].tape>>
          /\ hm[c].tape # 0 =>
                /\ tapes[hm[c].tape].call = hm[c].call
                /\ outcomes[hm[c].call] = "running"
                /\ \A d \in Threads \ {c} :
                      /\ hm[d].tape # hm[c].tape
                      /\ hm[c].tape \notin Recording(tape_stack[d])

\* a call raised in its forward pass, a later one returned, and a third
\* is recording while both of their tapes are released
C17_Witness ==
    /\ Len(outcomes) = 3
    /\ outcomes[1] = "raised in forward pass"
    /\ outcomes[2] = "returned"
    /\ outcomes[3] = "running"
    /\ \E c \in Threads : hm[c].call = 3 /\ hm[c].pc = "select" /\ IsRecording(hm[c].tape)
    /\ \A t \in TapesOf(1) \cup TapesOf(2) : ~IsRecording(t)

====
